---- MODULE Spec2Model ----
(***************************************************************************)
(* Model of package sqlnull (src/sqlnull.go): the NullValue scan adapter,  *)
(* its type resolver validate, and the builders Target and Scanner.        *)
(*                                                                         *)
(* Memory is a finite array of cells.  A cell holds a Go value together    *)
(* with its static type; a pointer value is the address of a cell, 0 is    *)
(* the nil pointer.  A Go interface value (the `any` handed to New, Target *)
(* and Scan) is the pair of a dynamic type and a value.                    *)
(***************************************************************************)
EXTENDS Integers, Sequences, FiniteSets, TLC

VARIABLES
    mem,      \* the caller's memory: address -> cell
    next,     \* the next address the allocator hands out
    nv,       \* the NullValue adapter: its field `target`
    result,   \* what the latest call returned, and the memory it started from
    tgt,      \* the value the latest Target call returned
    targets   \* the slice the latest Scanner call returned

vars == <<mem, next, nv, result, tgt, targets>>

-----------------------------------------------------------------------------
(* Bounds of the model. *)

\* Number of cells the allocator may hand out beyond the caller's own three.
MaxHeap == 1

\* Longest destination list handed to Scanner.
MaxTargets == 2

-----------------------------------------------------------------------------
(* Go types.  A type is a base type under `depth` levels of pointer. *)

NativeBases ==
    {"bool", "uint8", "int8", "int16", "uint16", "int32", "uint32", "int64",
     "uint64", "int", "uint", "string", "float32", "float64", "time.Time"}

\* User-declared named types, as in the package's tests (CustomBool ...), and a
\* named type declared over time.Time.
NamedBases ==
    {"CustomBool", "CustomByte", "CustomInt16", "CustomInt32", "CustomInt64",
     "CustomString", "CustomFloat", "CustomTime"}

\* Types whose kind is none of the kinds validate lists.
OtherBases ==
    {"alien", "sql.NullString", "[]byte", "map", "complex128", "uintptr"}

Bases == NativeBases \cup NamedBases \cup OtherBases

\* The type a named type is declared over.
Underlying(base) ==
    CASE base = "CustomBool"   -> "bool"
      [] base = "CustomByte"   -> "uint8"
      [] base = "CustomInt16"  -> "int16"
      [] base = "CustomInt32"  -> "int32"
      [] base = "CustomInt64"  -> "int64"
      [] base = "CustomString" -> "string"
      [] base = "CustomFloat"  -> "float64"
      [] base = "CustomTime"   -> "time.Time"
      [] OTHER                 -> base

\* Kind looked up by the declared name instead of the underlying type.
BaseKindByName(base) ==
    CASE base = "bool"    -> "Bool"
      [] base = "uint8"   -> "Uint8"
      [] base = "int8"    -> "Int8"
      [] base = "int16"   -> "Int16"
      [] base = "uint16"  -> "Uint16"
      [] base = "int32"   -> "Int32"
      [] base = "uint32"  -> "Uint32"
      [] base = "int64"   -> "Int64"
      [] base = "uint64"  -> "Uint64"
      [] base = "int"     -> "Int"
      [] base = "uint"    -> "Uint"
      [] base = "string"  -> "String"
      [] base = "float32" -> "Float32"
      [] base = "float64" -> "Float64"
      [] base \in {"time.Time", "CustomTime", "alien", "sql.NullString"} -> "Struct"
      [] OTHER            -> "Invalid"

\* reflect.Kind of a base type: the kind of its underlying type.
BaseKind(base) ==
    LET u == Underlying(base) IN
    CASE u = "bool"           -> "Bool"
      [] u = "uint8"          -> "Uint8"
      [] u = "int8"           -> "Int8"
      [] u = "int16"          -> "Int16"
      [] u = "uint16"         -> "Uint16"
      [] u = "int32"          -> "Int32"
      [] u = "uint32"         -> "Uint32"
      [] u = "int64"          -> "Int64"
      [] u = "uint64"         -> "Uint64"
      [] u = "int"            -> "Int"
      [] u = "uint"           -> "Uint"
      [] u = "string"         -> "String"
      [] u = "float32"        -> "Float32"
      [] u = "float64"        -> "Float64"
      [] u = "time.Time"      -> "Struct"
      [] u = "alien"          -> "Struct"
      [] u = "sql.NullString" -> "Struct"
      [] u = "[]byte"         -> "Slice"
      [] u = "map"            -> "Map"
      [] u = "complex128"     -> "Complex128"
      [] u = "uintptr"        -> "Uintptr"
      [] u = "any"            -> "Interface"
      [] OTHER                -> "Invalid"

MkType(base, depth) == [base |-> base, depth |-> depth]

\* reflect.TypeOf(nil): no type at all.
NoType == MkType("nil", 0)

\* reflect.TypeOf(time.Time{}).
TimeType == MkType("time.Time", 0)

\* The type of the cell new(any) allocates.
AnyType == MkType("any", 0)

\* reflect.Type.Kind.
Kind(t) == IF t.depth > 0 THEN "Ptr" ELSE BaseKind(t.base)

\* reflect.Type.Elem of a pointer type.
Elem(t) == MkType(t.base, t.depth - 1)

\* The pointer type *t.
PtrTo(t) == MkType(t.base, t.depth + 1)

-----------------------------------------------------------------------------
(* Values.  A scalar is a pair [n, s]: a number and a text, of which a     *)
(* given type uses one (a bool is 1 or 0, a float is held in hundredths:   *)
(* 8889 is 88.89, a time is a tick count).  A raw column value adds k, the *)
(* name of its dynamic type (nil, int64, float64, bool, string, time.Time).*)

Val(n, s) == [n |-> n, s |-> s]

Raw(k, n, s) == [k |-> k, n |-> n, s |-> s]

NilRaw == Raw("nil", 0, "")

RawInts == {-1, 1, 200, 40000}

RawValues ==
    {NilRaw}
      \cup {Raw("int", n, "") : n \in RawInts}
      \cup {Raw("float", f, "") : f \in {100, 8889}}
      \cup {Raw("bool", b, "") : b \in {0, 1}}
      \cup {Raw("string", 0, s) : s \in {"1", "abc"}}
      \cup {Raw("time", t, "") : t \in {1}}

\* strconv.FormatFloat(f, 'g', -1, 64) on the floats of the model.
FormatFloat(f) ==
    CASE f = 100  -> "1"
      [] f = 8889 -> "88.89"
      [] f = 250  -> "2.5"
      [] OTHER    -> "0"

\* time.Time.Format(time.RFC3339Nano) on the times of the model.
FormatTime(t) ==
    CASE t = 1 -> "0001-01-01T00:00:01Z"
      [] t = 9 -> "0001-01-01T00:00:09Z"
      [] OTHER -> "0001-01-01T00:00:00Z"

\* database/sql asString: the text a raw value is parsed from.
asString(src) ==
    CASE src.k = "int"    -> ToString(src.n)
      [] src.k = "float"  -> FormatFloat(src.n)
      [] src.k = "bool"   -> IF src.n = 1 THEN "true" ELSE "false"
      [] src.k = "string" -> src.s
      [] src.k = "time"   -> FormatTime(src.n)
      [] OTHER            -> ""

Parsed(ok, n, s) == [ok |-> ok, n |-> n, s |-> s]

ParseError == Parsed(FALSE, 0, "")

\* strconv.ParseInt(s, 10, 64) on the texts asString produces in the model.
ParseDecimal(s) ==
    IF \E n \in RawInts : ToString(n) = s
    THEN Parsed(TRUE, CHOOSE n \in RawInts : ToString(n) = s, "")
    ELSE ParseError

\* strconv.ParseInt(asString(src), 10, bits): a decimal integer in the signed
\* range of `bits` bits (ParseUint for lo = 0).
ParseInt(src, lo, hi) ==
    LET d == ParseDecimal(asString(src)) IN
    IF d.ok /\ lo <= d.n /\ d.n <= hi THEN d ELSE ParseError

\* strconv.ParseInt(asString(src), 10, 32 or 64): every decimal integer of the
\* model lies inside the 32-bit signed range, so only the syntax can fail.
ParseWide(src) == ParseDecimal(asString(src))

\* strconv.ParseFloat(asString(src), 64).
ParseFloat(src) ==
    LET d == ParseDecimal(asString(src)) IN
    IF d.ok THEN Parsed(TRUE, d.n * 100, "")
    ELSE IF src.k = "float" THEN Parsed(TRUE, src.n, "")
    ELSE ParseError

\* driver.Bool.ConvertValue.
ParseBool(src) ==
    CASE src.k = "bool"   -> Parsed(TRUE, src.n, "")
      [] src.k = "string" ->
            IF src.s \in {"1", "true"} THEN Parsed(TRUE, 1, "")
            ELSE IF src.s \in {"0", "false"} THEN Parsed(TRUE, 0, "")
            ELSE ParseError
      [] src.k = "int"    ->
            IF src.n \in {0, 1} THEN Parsed(TRUE, src.n, "") ELSE ParseError
      [] OTHER            -> ParseError

\* convertAssign into a *time.Time: only a time.Time is assignable.
ParseTime(src) ==
    IF src.k = "time" THEN Parsed(TRUE, src.n, "") ELSE ParseError

\* convertAssign into a *string: the text of any value.
ParseString(src) == Parsed(TRUE, 0, asString(src))

MinInt16 == -32768
MaxInt16 == 32767
MaxUint8 == 255

Holders ==
    {"NullBool", "NullByte", "NullInt16", "NullInt32", "NullInt64",
     "NullString", "NullFloat64", "NullTime"}

\* The holder after its Scan(src): [err, Valid, X].  A nil src leaves the
\* holder invalid; otherwise convertAssign parses src into the holder's field.
HolderState(err, valid, x) == [err |-> err, Valid |-> valid, X |-> x]

HolderOf(k, p) == HolderState(~p.ok, TRUE, Raw(k, p.n, p.s))

HolderScan(holder, src) ==
    IF src.k = "nil" THEN HolderState(FALSE, FALSE, NilRaw)
    ELSE CASE holder = "NullBool"    -> HolderOf("bool", ParseBool(src))
           [] holder = "NullByte"    -> HolderOf("int", ParseInt(src, 0, MaxUint8))
           [] holder = "NullInt16"   -> HolderOf("int", ParseInt(src, MinInt16, MaxInt16))
           [] holder = "NullInt32"   -> HolderOf("int", ParseWide(src))
           [] holder = "NullInt64"   -> HolderOf("int", ParseWide(src))
           [] holder = "NullString"  -> HolderOf("string", ParseString(src))
           [] holder = "NullFloat64" -> HolderOf("float", ParseFloat(src))
           [] holder = "NullTime"    -> HolderOf("time", ParseTime(src))

\* driver.Valuer.Value of the holder: nil when invalid, else the field (integer
\* fields widened to int64).
HolderValue(h) == IF h.Valid THEN h.X ELSE NilRaw

\* Convert without the truncation to the width of the type.
ConvertUntruncated(val, base) == Val(val.n, val.s)

\* reflect.Value.Convert of a driver value to base type `base`.  Narrow integer
\* types keep the low 8 or 16 bits.  A 32- or 64-bit cell is written with the
\* value's low bits unchanged; the cell holds their signed reading, so a
\* negative number in an unsigned 32- or 64-bit cell stands for that number
\* plus 2^32 or 2^64.
Convert(val, base) ==
    LET kd == BaseKind(base) IN
    CASE kd = "Int8"   -> Val(((val.n + 128) % 256) - 128, "")
      [] kd = "Uint8"  -> Val(val.n % 256, "")
      [] kd = "Int16"  -> Val(((val.n + 32768) % 65536) - 32768, "")
      [] kd = "Uint16" -> Val(val.n % 65536, "")
      [] OTHER         -> Val(val.n, val.s)

\* reflect.Zero of a scalar type.
ZeroOf(base) == Val(0, "")

-----------------------------------------------------------------------------
(* The type resolver. *)

Validated(holder, targetType, err) ==
    [holder |-> holder, targetType |-> targetType, err |-> err]

\* The error validate returns on its last line.
Unsupported == Validated("none", NoType, "unsupported")

\* The switch of validate with the struct case taken for any struct.
HolderForAnyStruct(kd, inner) ==
    CASE kd = "Bool"                               -> "NullBool"
      [] kd = "Uint8"                              -> "NullByte"
      [] kd \in {"Int8", "Int16", "Uint16"}        -> "NullInt16"
      [] kd \in {"Int32", "Uint32"}                -> "NullInt32"
      [] kd \in {"Int64", "Uint64", "Int", "Uint"} -> "NullInt64"
      [] kd = "String"                             -> "NullString"
      [] kd \in {"Float32", "Float64"}             -> "NullFloat64"
      [] kd = "Struct"                             -> "NullTime"
      [] OTHER                                     -> "none"

\* The switch of validate with uint16 moved to the 32-bit case.
HolderUint16Wide(kd, inner) ==
    CASE kd = "Bool"                               -> "NullBool"
      [] kd = "Uint8"                              -> "NullByte"
      [] kd \in {"Int8", "Int16"}                  -> "NullInt16"
      [] kd \in {"Int32", "Uint32", "Uint16"}      -> "NullInt32"
      [] kd \in {"Int64", "Uint64", "Int", "Uint"} -> "NullInt64"
      [] kd = "String"                             -> "NullString"
      [] kd \in {"Float32", "Float64"}             -> "NullFloat64"
      [] kd = "Struct" /\ inner = TimeType         -> "NullTime"
      [] OTHER                                     -> "none"

\* The switch of validate over the kind of the innermost type.
HolderForKind(kd, inner) ==
    CASE kd = "Bool"                               -> "NullBool"
      [] kd = "Uint8"                              -> "NullByte"
      [] kd \in {"Int8", "Int16", "Uint16"}        -> "NullInt16"
      [] kd \in {"Int32", "Uint32"}                -> "NullInt32"
      [] kd \in {"Int64", "Uint64", "Int", "Uint"} -> "NullInt64"
      [] kd = "String"                             -> "NullString"
      [] kd \in {"Float32", "Float64"}             -> "NullFloat64"
      [] kd = "Struct" /\ inner = TimeType         -> "NullTime"
      [] OTHER                                     -> "none"

\* validate(target).  reflect.TypeOf of a nil interface is nil, and the call of
\* Kind on it aborts the program.
validate(target) ==
    LET targetType == target.tp IN
    IF targetType = NoType THEN Validated("none", NoType, "panic")
    ELSE IF Kind(targetType) = "Ptr" /\ Kind(Elem(targetType)) = "Ptr"
    THEN LET inner == Elem(Elem(targetType))
             h == HolderForKind(Kind(inner), inner) IN
         IF h # "none" THEN Validated(h, targetType, "nil") ELSE Unsupported
    ELSE Unsupported

-----------------------------------------------------------------------------
(* Memory.  A cell holds its static type and a scalar; a pointer cell holds *)
(* the address it points to in n, 0 for nil.  A cell of interface type     *)
(* also holds k, the dynamic type of its content.                          *)

Cell(tp, v) == [tp |-> tp, k |-> "", n |-> v.n, s |-> v.s]

FreeCell == Cell(NoType, Val(0, ""))

\* The caller's own variables: x of type T, p of type *T, pp of type **T.
XAddr == 1
PAddr == 2
PPAddr == 3

MaxAddr == PPAddr + MaxHeap

\* The engine's native handling of a pointer to a pointer allocates as it
\* descends, at most twice for each destination of a row.  A build call is
\* started only while next <= MaxAddr and allocates at most one discard target
\* for each entry; a row scan follows the build of its targets, and memory has
\* room for what it then allocates.
MemSize == MaxAddr + 3 * MaxTargets

\* reflect.New(t): a fresh cell holding the zero value of t, at address nx.
Alloc(m, nx, t) == [m EXCEPT ![nx] = Cell(t, ZeroOf(t.base))]

\* Store v in the cell at address a, keeping the cell's type.
Store(m, a, v) == [m EXCEPT ![a] = Cell(m[a].tp, v)]

\* A pointer value.
Ptr(a) == Val(a, "")

\* Store an interface value in the cell at address a: *d = src.
StoreAny(m, a, src) == [m EXCEPT ![a] = [tp |-> m[a].tp, k |-> src.k, n |-> src.n, s |-> src.s]]

-----------------------------------------------------------------------------
(* The scan adapter. *)

Outcome(err, m, nx, parsed, holder) ==
    [err |-> err, mem |-> m, next |-> nx, parsed |-> parsed, holder |-> holder]

\* ScanPresent allocating on every call.
ScanPresentFresh(m, nx, a, targetType, val) ==
    LET inner == Elem(Elem(targetType))
        m1 == Store(Alloc(m, nx, inner), a, Ptr(nx)) IN
    [mem |-> Store(m1, nx, Convert(val, inner.base)), next |-> nx + 1]

\* The else branch of Scan: the holder's value is present.  val is the cell at
\* address a (the caller's *T); val.Elem() is addressable unless val is nil.
ScanPresent(m, nx, a, targetType, val) ==
    LET inner == Elem(Elem(targetType))
        m1 == IF m[a].n = 0
              THEN Store(Alloc(m, nx, inner), a, Ptr(nx))
              ELSE m
        nx1 == IF m[a].n = 0 THEN nx + 1 ELSE nx IN
    [mem |-> Store(m1, m1[a].n, Convert(val, inner.base)), next |-> nx1]

\* ScanAbsent without the assignment: the destination keeps its pointer.
ScanAbsentKeeps(m, a) == m

\* The branch of Scan for a nil value: val.Set(reflect.Zero(targetType.Elem())).
ScanAbsent(m, a) == Store(m, a, Ptr(0))

\* Scan clearing the destination before it returns the holder's error.
ScanClearsOnError(target, src, m, nx) ==
    LET r == validate(target) IN
    IF r.err # "nil" THEN Outcome(r.err, m, nx, FALSE, "none")
    ELSE LET null == HolderScan(r.holder, src) IN
         IF target.v = 0 THEN Outcome("panic", m, nx, TRUE, r.holder)
         ELSE IF null.err
         THEN Outcome("conversion", ScanAbsent(m, target.v), nx, TRUE, r.holder)
         ELSE LET v == HolderValue(null) IN
              IF v.k = "nil"
              THEN Outcome("nil", ScanAbsent(m, target.v), nx, TRUE, r.holder)
              ELSE LET w == ScanPresent(m, nx, target.v, r.targetType, v) IN
                   Outcome("nil", w.mem, w.next, TRUE, r.holder)

\* NullValue.Scan(src) on an adapter whose target is `target`, from memory m.
\* reflect.ValueOf(target).Elem() of a nil pointer is the zero Value, on which
\* Set and Elem abort the program.
Scan(target, src, m, nx) ==
    LET r == validate(target) IN
    IF r.err # "nil" THEN Outcome(r.err, m, nx, FALSE, "none")
    ELSE LET null == HolderScan(r.holder, src) IN
         IF null.err THEN Outcome("conversion", m, nx, TRUE, r.holder)
         ELSE IF target.v = 0 THEN Outcome("panic", m, nx, TRUE, r.holder)
         ELSE LET v == HolderValue(null) IN
              IF v.k = "nil"
              THEN Outcome("nil", ScanAbsent(m, target.v), nx, TRUE, r.holder)
              ELSE LET w == ScanPresent(m, nx, target.v, r.targetType, v) IN
                   Outcome("nil", w.mem, w.next, TRUE, r.holder)

\* Scan allocates when the holder's value is present and *target is nil.
ScanAllocates(target, src, m) ==
    LET r == validate(target) IN
    /\ r.err = "nil"
    /\ target.v # 0
    /\ m[target.v].n = 0
    /\ LET null == HolderScan(r.holder, src) IN ~null.err /\ null.Valid

-----------------------------------------------------------------------------
(* The caller.  It declares x of type T holding a value of an earlier row, *)
(* p of type *T (nil, or pointing at x) and pp of type **T, and hands one  *)
(* of its values to New.                                                   *)

\* A value already stored in x when the program starts.
OldValue(base) ==
    LET kd == BaseKind(base) IN
    CASE kd = "Bool"                   -> Val(1, "")
      [] kd = "String"                 -> Val(0, "old")
      [] kd \in {"Float32", "Float64"} -> Val(250, "")
      [] kd = "Struct"                 -> Val(9, "")
      [] OTHER                         -> Val(7, "")

InitMem(base, p0) ==
    [a \in 1..MemSize |->
        CASE a = XAddr  -> Cell(MkType(base, 0), OldValue(base))
          [] a = PAddr  -> Cell(MkType(base, 1), Ptr(p0))
          [] a = PPAddr -> Cell(MkType(base, 2), Ptr(PAddr))
          [] OTHER      -> FreeCell]

\* An interface value holding a pointer (or, at depth 0, a copy of x): its
\* dynamic type and the address it points to.
Iface(tp, v) == [tp |-> tp, v |-> v]

\* The untyped nil.
NilIface == Iface(NoType, 0)

\* What the caller can hand over as a destination: nil, the value x, &x, &p,
\* &pp, and a nil pointer of the type of &p.
Destinations(base) ==
    {NilIface,
     Iface(MkType(base, 0), 0),
     Iface(MkType(base, 1), XAddr),
     Iface(MkType(base, 2), PAddr),
     Iface(MkType(base, 3), PPAddr),
     Iface(MkType(base, 2), 0)}

\* The pointer stored in the variable a destination points at: *target for a
\* non-nil pointer target, nil otherwise.
Inner(target, m) ==
    IF target.tp.depth > 0 /\ target.v # 0 THEN m[target.v].n ELSE 0

\* New(target): a NullValue holding the target.
New(target) == [target |-> target]

NoCall ==
    [call |-> "none", src |-> NilRaw, args |-> <<>>, err |-> "nil",
     parsed |-> FALSE, holder |-> "none", prep |-> 0, prenext |-> 0]

Init ==
    \E base \in Bases, p0 \in {0, XAddr} :
        /\ mem = InitMem(base, p0)
        /\ next = PPAddr + 1
        /\ \E d \in Destinations(base) : nv = New(d)
        /\ result = NoCall
        /\ tgt = NilIface
        /\ targets = <<>>

\* The row-fetch engine calls nv.Scan(src).  A call that must allocate is taken
\* only while the allocator has a cell left.
ScanCall ==
    \E src \in RawValues :
        /\ ScanAllocates(nv.target, src, mem) => next <= MaxAddr
        /\ \E out \in {Scan(nv.target, src, mem, next)} :
           /\ mem' = out.mem
           /\ next' = out.next
           /\ result' = [call |-> "Scan", src |-> src, args |-> <<>>,
                         err |-> out.err, parsed |-> out.parsed,
                         holder |-> out.holder,
                         prep |-> Inner(nv.target, mem), prenext |-> next]
        /\ UNCHANGED <<nv, tgt, targets>>

Next == ScanCall

Spec == Init /\ [][Next]_vars

-----------------------------------------------------------------------------
(* The builders. *)

Built(val, m, nx, err) == [val |-> val, mem |-> m, next |-> nx, err |-> err]

\* The type of the discard target, *any.
DiscardType == PtrTo(AnyType)

\* new(any): a fresh cell holding the nil interface.
AllocAny(m, nx) == [m EXCEPT ![nx] = [tp |-> AnyType, k |-> "nil", n |-> 0, s |-> ""]]

\* A Target that wraps every destination that is not nil, without asking
\* validate.
TargetAlwaysWraps(target, m, nx) ==
    IF target = NilIface THEN Built(Iface(DiscardType, nx), AllocAny(m, nx), nx + 1, "nil")
    ELSE Built(New(target), m, nx, "nil")

\* A Target without the nil case: nil goes to validate, whose failure is
\* taken as a rejection, and is handed on as it is.
TargetNilPassThrough(target, m, nx) ==
    LET r == validate(target) IN
    IF r.err = "nil" THEN Built(New(target), m, nx, "nil")
    ELSE Built(target, m, nx, "unsupported")

\* Target(target).
Target(target, m, nx) ==
    IF target = NilIface THEN Built(Iface(DiscardType, nx), AllocAny(m, nx), nx + 1, "nil")
    ELSE LET r == validate(target) IN
         IF r.err = "nil" THEN Built(New(target), m, nx, "nil")
         ELSE Built(target, m, nx, r.err)

\* The loop of Scanner from position i on, result being the slice built so far.
RECURSIVE ScannerFrom(_, _, _, _, _)
ScannerFrom(i, ts, res, m, nx) ==
    IF i > Len(ts) THEN Built(res, m, nx, "nil")
    ELSE LET t == Target(ts[i], m, nx) IN
         IF t.err = "panic" THEN Built(res, t.mem, t.next, "panic")
         ELSE ScannerFrom(i + 1, ts, Append(res, t.val), t.mem, t.next)

\* A Scanner that leaves the nil entries out of its result.
ScannerSkipsNil(ts, m, nx) ==
    ScannerFrom(1, SelectSeq(ts, LAMBDA d : d # NilIface), <<>>, m, nx)

\* Scanner(targets...).
Scanner(ts, m, nx) == ScannerFrom(1, ts, <<>>, m, nx)

-----------------------------------------------------------------------------
(* The row-fetch engine (database/sql), as far as it handles the targets   *)
(* the builders hand to it.                                                *)

\* fmt.Sprintf("%v", t) on the times of the model.
FormatTimeV(t) == IF t = 1 THEN "0001-01-01 00:00:01 +0000 UTC" ELSE "0001-01-01 00:00:09 +0000 UTC"

\* convertAssign into a plain *T, T a scalar type: NULL is refused, a value is
\* parsed to the width of T.  A named bool takes only a bool, a named string
\* takes a time as fmt prints it.
NativeScalar(base, src) ==
    LET kd == BaseKind(base) IN
    IF src.k = "nil" THEN ParseError
    ELSE CASE kd = "Bool" ->
                IF base = "bool" THEN ParseBool(src)
                ELSE IF src.k = "bool" THEN Parsed(TRUE, src.n, "") ELSE ParseError
           [] kd = "Int8"   -> ParseInt(src, -128, 127)
           [] kd = "Uint8"  -> ParseInt(src, 0, MaxUint8)
           [] kd = "Int16"  -> ParseInt(src, MinInt16, MaxInt16)
           [] kd = "Uint16" -> ParseInt(src, 0, 65535)
           [] kd \in {"Int32", "Int64", "Int"}    -> ParseWide(src)
           [] kd \in {"Uint32", "Uint64", "Uint"} -> ParseInt(src, 0, 2147483647)
           [] kd \in {"Float32", "Float64"}       -> ParseFloat(src)
           [] kd = "String" ->
                IF base # "string" /\ src.k = "time"
                THEN Parsed(TRUE, 0, FormatTimeV(src.n))
                ELSE ParseString(src)
           [] kd = "Struct" /\ Underlying(base) = "time.Time" -> ParseTime(src)
           [] OTHER -> ParseError

\* (*sql.NullString).Scan(src) on the holder stored at address a.
StoreHolder(m, a, src) ==
    LET h == HolderScan("NullString", src) IN
    [m EXCEPT ![a] = [tp |-> m[a].tp, k |-> IF h.Valid THEN "valid" ELSE "null",
                      n |-> h.X.n, s |-> h.X.s]]

Assigned(err, m, nx) == [err |-> err, mem |-> m, next |-> nx]

\* convertAssign(dest, src) for a dest that is no NullValue: a *any takes any
\* value; a non-pointer and a nil pointer are refused; a pointer to a pointer
\* is set to nil for NULL and otherwise to fresh storage that is assigned in
\* turn.
RECURSIVE convertAssign(_, _, _, _)
convertAssign(dest, src, m, nx) ==
    IF dest.tp = DiscardType /\ dest.v # 0 THEN Assigned("nil", StoreAny(m, dest.v, src), nx)
    ELSE IF dest.tp.depth = 0 THEN Assigned("engine", m, nx)
    ELSE IF dest.v = 0 THEN Assigned("engine", m, nx)
    ELSE IF dest.tp.depth = 1
    THEN IF dest.tp.base = "sql.NullString"
         THEN Assigned("nil", StoreHolder(m, dest.v, src), nx)
         ELSE LET p == NativeScalar(dest.tp.base, src) IN
              IF p.ok THEN Assigned("nil", Store(m, dest.v, Val(p.n, p.s)), nx)
              ELSE Assigned("engine", m, nx)
    ELSE IF src.k = "nil" THEN Assigned("nil", Store(m, dest.v, Ptr(0)), nx)
    ELSE convertAssign(Iface(Elem(dest.tp), nx), src,
                       Store(Alloc(m, nx, Elem(Elem(dest.tp))), dest.v, Ptr(nx)),
                       nx + 1)

\* A target is a NullValue built by New.
IsNullValue(t) == "target" \in DOMAIN t

\* The engine assigns one column: a Scanner is called, anything else goes
\* through convertAssign.
AssignColumn(t, src, m, nx) ==
    IF IsNullValue(t)
    THEN LET o == Scan(t.target, src, m, nx) IN Assigned(o.err, o.mem, o.next)
    ELSE convertAssign(t, src, m, nx)

\* Row.Scan(dest...): the columns in order, stopping at the first error.
RECURSIVE RowScanFrom(_, _, _, _, _)
RowScanFrom(i, ts, row, m, nx) ==
    IF i > Len(ts) THEN Assigned("nil", m, nx)
    ELSE LET o == AssignColumn(ts[i], row[i], m, nx) IN
         IF o.err # "nil" THEN o
         ELSE RowScanFrom(i + 1, ts, row, o.mem, o.next)

RowScan(ts, row, m, nx) == RowScanFrom(1, ts, row, m, nx)

-----------------------------------------------------------------------------
(* A caller that builds targets and scans rows into them. *)

\* The innermost types of the caller's variables in this program.
BatchBases == {"bool", "int8", "CustomTime", "alien", "sql.NullString"}

\* The raw values of its rows.
BatchRaws == {NilRaw, Raw("int", 1, "")}

\* The base type of the caller's variables.
BaseOf(m) == m[XAddr].tp.base

\* The number of nil entries of a destination list.
NilCount(ts) == Cardinality({i \in DOMAIN ts : ts[i] = NilIface})

Called(call, args, err) ==
    [call |-> call, src |-> NilRaw, args |-> args, err |-> err,
     parsed |-> FALSE, holder |-> "none", prep |-> 0, prenext |-> next]

InitBatch ==
    \E base \in BatchBases, p0 \in {0, XAddr} :
        /\ mem = InitMem(base, p0)
        /\ next = PPAddr + 1
        /\ nv = New(NilIface)
        /\ result = NoCall
        /\ tgt = NilIface
        /\ targets = <<>>

\* The destinations it builds targets for: nil, &x, &p and &pp.
BatchDestinations(base) == {d \in Destinations(base) : d = NilIface \/ d.v # 0}

\* tgt = Target(d).  The caller holds one build result at a time.
TargetCall ==
    \E d \in BatchDestinations(BaseOf(mem)) :
        /\ d = NilIface => next <= MaxAddr
        /\ \E out \in {Target(d, mem, next)} :
           /\ tgt' = out.val
           /\ mem' = out.mem
           /\ next' = out.next
           /\ result' = Called("Target", <<d>>, out.err)
        /\ targets' = <<>>
        /\ UNCHANGED nv

\* targets = Scanner(ds...).
ScannerCall ==
    \E n \in 0..MaxTargets :
        \E ds \in [1..n -> BatchDestinations(BaseOf(mem))] :
            /\ next <= MaxAddr
            /\ \E out \in {Scanner(ds, mem, next)} :
               /\ targets' = out.val
               /\ mem' = out.mem
               /\ next' = out.next
               /\ result' = Called("Scanner", ds, out.err)
            /\ tgt' = NilIface
            /\ UNCHANGED nv

\* row.Scan(sqlnull.Scanner(...)...) on a row with one column for each target:
\* the slice is an argument of the call and is gone when it returns.
RowScanCall ==
    /\ Len(targets) > 0
    /\ next <= MaxAddr + MaxTargets
    /\ \E row \in [1..Len(targets) -> BatchRaws] :
           \E out \in {RowScan(targets, row, mem, next)} :
           /\ mem' = out.mem
           /\ next' = out.next
           /\ result' = Called("RowScan", row, out.err)
    /\ targets' = <<>>
    /\ UNCHANGED <<nv, tgt>>

NextBatch == TargetCall \/ ScannerCall \/ RowScanCall

SpecBatch == InitBatch /\ [][NextBatch]_vars

-----------------------------------------------------------------------------
(* Vocabulary of the properties. *)

\* The base types the code supports as innermost type of a destination.
SupportedBases == (NativeBases \cup NamedBases) \ {"CustomTime"}

\* A destination of supported shape, **T, given as a non-nil pointer.
SupportedDest(target) ==
    /\ target.tp.depth = 2
    /\ target.tp.base \in SupportedBases
    /\ target.v # 0

\* The canonical holder of a base type by its underlying representation alone.
KindHolder(base) ==
    LET u == Underlying(base) IN
    CASE u = "bool"                            -> "NullBool"
      [] u = "uint8"                           -> "NullByte"
      [] u \in {"int8", "int16", "uint16"}     -> "NullInt16"
      [] u \in {"int32", "uint32"}             -> "NullInt32"
      [] u \in {"int64", "uint64", "int", "uint"} -> "NullInt64"
      [] u = "string"                          -> "NullString"
      [] u \in {"float32", "float64"}          -> "NullFloat64"
      [] u = "time.Time"                       -> "NullTime"
      [] OTHER                                 -> "none"

\* The holder accepts a present raw value.
Accepts(holder, src) == src.k # "nil" /\ ~HolderScan(holder, src).err

\* The holder rejects a raw value.
Rejects(holder, src) == HolderScan(holder, src).err

\* Go's conversion of the holder's value `val` to base type `base`, stated by
\* its result: the stored scalar `c` lies in the range of the type and agrees
\* with the value modulo 2^width (8- and 16-bit integers), or is the value.
IsConversionOf(c, val, base) ==
    LET u == Underlying(base) IN
    CASE u = "int8"   -> c.n \in -128..127 /\ (c.n - val.n) % 256 = 0 /\ c.s = ""
      [] u = "uint8"  -> c.n \in 0..255 /\ (c.n - val.n) % 256 = 0 /\ c.s = ""
      [] u = "int16"  -> c.n \in -32768..32767 /\ (c.n - val.n) % 65536 = 0 /\ c.s = ""
      [] u = "uint16" -> c.n \in 0..65535 /\ (c.n - val.n) % 65536 = 0 /\ c.s = ""
      [] OTHER        -> c.n = val.n /\ c.s = val.s

\* The latest call was nv.Scan.
Scanned == result.call = "Scan"

\* The cell the destination's inner pointer points at.
Pointee(target, m) == m[Inner(target, m)]

-----------------------------------------------------------------------------
(* C1: for a supported destination handed over as a non-nil pointer, a     *)
(* Scan of an absent (nil) raw value returns no error and leaves the inner *)
(* pointer nil, whatever the pointer held before the call.                 *)
C1_AbsentClears ==
    (Scanned /\ SupportedDest(nv.target) /\ result.src.k = "nil")
        => (result.err = "nil" /\ Inner(nv.target, mem) = 0)

\* An absent value scanned over a pointer that an earlier Scan had allocated.
C1_Witness ==
    /\ Scanned /\ SupportedDest(nv.target) /\ result.src.k = "nil"
    /\ result.prep > PPAddr
    /\ result.err = "nil" /\ Inner(nv.target, mem) = 0

-----------------------------------------------------------------------------
(* C2 as stated: for each of the eight kinds and every destination whose   *)
(* innermost type is the kind's native type or a named type over it, a     *)
(* present raw value the kind's holder accepts is stored: no error, inner  *)
(* pointer non-nil, pointee of the declared type holding the conversion of *)
(* the holder's value.                                                     *)
PresentStored(bases) ==
    (/\ Scanned
     /\ nv.target.tp.depth = 2 /\ nv.target.v # 0
     /\ nv.target.tp.base \in bases
     /\ Accepts(KindHolder(nv.target.tp.base), result.src))
        => /\ result.err = "nil"
           /\ Inner(nv.target, mem) # 0
           /\ Pointee(nv.target, mem).tp = MkType(nv.target.tp.base, 0)
           /\ IsConversionOf(Pointee(nv.target, mem),
                             HolderScan(KindHolder(nv.target.tp.base), result.src).X,
                             nv.target.tp.base)

-----------------------------------------------------------------------------
(* C3: for a non-nil destination whose shape is not pointer to pointer to  *)
(* a supported scalar (a non-pointer value, a single pointer, a third      *)
(* level of pointer, an innermost type outside the supported ones), every  *)
(* Scan returns the unsupported destination error, no holder has parsed    *)
(* the raw value, and memory is as it was before the call.                 *)
UnsupportedShape(target) ==
    /\ target # NilIface
    /\ ~(target.tp.depth = 2 /\ target.tp.base \in SupportedBases)

C3_UnsupportedRejected ==
    [][UnsupportedShape(nv.target)
          => /\ result'.err = "unsupported"
             /\ ~result'.parsed
             /\ mem' = mem
             /\ next' = next]_vars

\* A present value offered to a destination with a third level of pointer.
C3_Witness ==
    /\ Scanned
    /\ nv.target.tp.depth = 3 /\ nv.target.tp.base = "int64"
    /\ result.src = Raw("int", 1, "")
    /\ result.err = "unsupported"

-----------------------------------------------------------------------------
(* C4: for a supported destination and a raw value its kind's holder       *)
(* rejects, Scan returns the conversion error and leaves memory as it was: *)
(* the inner pointer and the value it points at are unchanged.             *)
C4_RejectedLeavesDestination ==
    [][(/\ SupportedDest(nv.target)
        /\ Rejects(KindHolder(nv.target.tp.base), result'.src))
          => /\ result'.err = "conversion"
             /\ mem' = mem
             /\ next' = next]_vars

\* A rejected value scanned over a pointer that holds an earlier row's value.
C4_Witness ==
    /\ Scanned /\ SupportedDest(nv.target)
    /\ result.err = "conversion"
    /\ result.prep > PPAddr
    /\ Inner(nv.target, mem) = result.prep

-----------------------------------------------------------------------------
(* C5 as stated: after a successful Scan of a present value the inner      *)
(* pointer points at storage allocated during the call, and the storage it *)
(* pointed at before the call is not modified.                             *)
PresentSuccess == result'.call = "Scan" /\ result'.err = "nil" /\ result'.src.k # "nil"

C5_Original ==
    [][PresentSuccess
          => /\ Inner(nv.target, mem') = next
             /\ next' = next + 1
             /\ Inner(nv.target, mem) # 0
                   => mem'[Inner(nv.target, mem)] = mem[Inner(nv.target, mem)]]_vars

(* C5 amended: after a successful Scan of a present value the inner        *)
(* pointer points at storage allocated during the call exactly when it was *)
(* nil before; when it was not nil it is left as it was and the storage it *)
(* points at is overwritten in place, so that a pointer copied from it     *)
(* before the call sees the new value.  No other cell is modified.         *)
C5_FreshOnlyWhenNil ==
    [][PresentSuccess
          => LET old == Inner(nv.target, mem)
                 new == Inner(nv.target, mem') IN
             /\ old = 0 => (new = next /\ next' = next + 1)
             /\ old # 0 => (new = old /\ next' = next)
             /\ \A a \in DOMAIN mem :
                   a \notin {nv.target.v, new} => mem'[a] = mem[a]]_vars

\* A present value written over the storage of the previous row.
C5_Witness ==
    /\ Scanned /\ result.err = "nil" /\ result.src = Raw("int", 200, "")
    /\ nv.target.tp = MkType("int8", 2)
    /\ result.prep = XAddr
    /\ Inner(nv.target, mem) = XAddr
    /\ mem[XAddr].n = -56

-----------------------------------------------------------------------------
(* C9: for a destination type **T, validate selects the holder by the kind *)
(* of T per its table (time.Time for the struct kind) and rejects every    *)
(* other T, a third level of pointer included; the holder a Scan used is   *)
(* the one validate selects for the type in any later state.               *)
TableHolder(kd, inner) ==
    IF kd = "Bool" THEN "NullBool"
    ELSE IF kd = "Uint8" THEN "NullByte"
    ELSE IF kd = "Int8" \/ kd = "Int16" \/ kd = "Uint16" THEN "NullInt16"
    ELSE IF kd = "Int32" \/ kd = "Uint32" THEN "NullInt32"
    ELSE IF kd = "Int64" \/ kd = "Uint64" \/ kd = "Int" \/ kd = "Uint" THEN "NullInt64"
    ELSE IF kd = "String" THEN "NullString"
    ELSE IF kd = "Float32" \/ kd = "Float64" THEN "NullFloat64"
    ELSE IF kd = "Struct" /\ inner = TimeType THEN "NullTime"
    ELSE "none"

C9_HolderByKind ==
    nv.target.tp.depth >= 2
        => LET inner == Elem(Elem(nv.target.tp))
               want == TableHolder(Kind(inner), inner)
               got == validate(nv.target) IN
           /\ want # "none" => (got.err = "nil" /\ got.holder = want)
           /\ want = "none" => got.err = "unsupported"
           /\ (Scanned /\ result.parsed) => result.holder = want
           /\ nv.target.tp.depth = 3 => got.err = "unsupported"

\* A Scan that used the 16-bit holder for a uint16 destination.
C9_Witness ==
    /\ Scanned /\ result.parsed
    /\ nv.target.tp = MkType("uint16", 2)
    /\ result.holder = "NullInt16"
    /\ validate(nv.target).holder = "NullInt16"

-----------------------------------------------------------------------------
(* C10 as stated: for each of the eight kinds a destination whose          *)
(* innermost type is a named type over the kind's representation is        *)
(* accepted and resolves to the holder of the native type.                 *)
NamedLikeNative(bases) ==
    (Scanned /\ nv.target.tp.depth = 2 /\ nv.target.tp.base \in bases)
        => LET native == Iface(MkType(Underlying(nv.target.tp.base), 2), nv.target.v) IN
           /\ result.err # "unsupported"
           /\ result.parsed
           /\ validate(native).err = "nil"
           /\ result.holder = validate(native).holder

-----------------------------------------------------------------------------
(* The batch builders. *)

\* The latest call was of the given builder or of the engine.
LatestCall(call) == result.call = call

\* The number of nil entries before position i of a destination list.
NilsBefore(ts, i) == Cardinality({j \in 1..(i - 1) : ts[j] = NilIface})

\* A target is a discard target.
IsDiscard(t) == ~IsNullValue(t) /\ t.tp = DiscardType

\* The cells of the discard targets of a target list.
DiscardCells(ts) == {ts[i].v : i \in {j \in DOMAIN ts : IsDiscard(ts[j])}}

\* The entries of s at the positions where ts holds no discard target.
RECURSIVE Others(_, _, _)
Others(i, s, ts) ==
    IF i > Len(ts) THEN <<>>
    ELSE (IF IsDiscard(ts[i]) THEN <<>> ELSE <<s[i]>>) \o Others(i + 1, s, ts)

(* C6: for every list of destinations, nil, supported and unsupported      *)
(* entries mixed and the empty list included, Scanner returns a list of    *)
(* the same length whose element at position i is Target applied to the    *)
(* input at position i (the calls of Target made in the order of the       *)
(* list), and Scanner reports no error and does not fail.                  *)
C6_ScannerPositional ==
    LatestCall("Scanner")
        => /\ result.err = "nil"
           /\ Len(targets) = Len(result.args)
           /\ \A i \in 1..Len(result.args) :
                  targets[i] = Target(result.args[i], mem,
                                      result.prenext + NilsBefore(result.args, i)).val

\* A Scanner call on a nil entry followed by a supported one, or on an
\* unsupported entry followed by a nil one.
C6_Witness ==
    /\ LatestCall("Scanner")
    /\ Len(result.args) = 2
    /\ \/ /\ result.args[1] = NilIface
          /\ validate(result.args[2]).err = "nil"
          /\ IsDiscard(targets[1])
          /\ targets[2] = New(result.args[2])
       \/ /\ validate(result.args[1]).err = "unsupported"
          /\ result.args[2] = NilIface
          /\ targets[1] = result.args[1]
          /\ IsDiscard(targets[2])

-----------------------------------------------------------------------------
(* C7: for every destination d that is not nil, Target(d) is a NullValue   *)
(* capturing d if and only if validate accepts d; otherwise Target(d) is d *)
(* itself; the call fails in no case and touches no memory, so a plain     *)
(* scalar pointer and a native nullable holder are handed to the engine    *)
(* as they were passed.                                                    *)
C7_TargetWrapsIffValid ==
    [][(result'.call = "Target" /\ result'.args[1] # NilIface)
          => LET d == result'.args[1] IN
             /\ IsNullValue(tgt') <=> validate(d).err = "nil"
             /\ IsNullValue(tgt') => tgt' = New(d)
             /\ ~IsNullValue(tgt') => tgt' = d
             /\ result'.err # "panic"
             /\ mem' = mem
             /\ next' = next]_vars

\* Target handed back a pointer to a native nullable holder as it was passed.
C7_Witness ==
    /\ LatestCall("Target")
    /\ result.args[1] # NilIface
    /\ ~IsNullValue(tgt)
    /\ tgt = result.args[1]
    /\ tgt.tp = MkType("sql.NullString", 1)
    /\ tgt.v = XAddr

-----------------------------------------------------------------------------
(* C8: for a nil destination Target returns a discard target in storage    *)
(* that was free before the call, so distinct from every target handed out *)
(* before and, within one Scanner call, from the other discard targets;    *)
(* the discard target takes every raw value without error and the engine's *)
(* assignment to it changes no other cell; a row scanned through a list    *)
(* with discard targets returns the error, and leaves the caller's memory, *)
(* that the scan of the other positions alone would.                       *)
C8_DiscardIgnored ==
    [][/\ (result'.call = "Target" /\ result'.args[1] = NilIface)
            => /\ tgt' = Iface(DiscardType, next)
               /\ mem[next] = FreeCell
               /\ next' = next + 1
               /\ \A a \in DOMAIN mem \ {next} : mem'[a] = mem[a]
               /\ \A src \in RawValues :
                      LET o == convertAssign(tgt', src, mem', next') IN
                      /\ o.err = "nil"
                      /\ o.next = next'
                      /\ \A a \in DOMAIN mem \ {next} : o.mem[a] = mem'[a]
       /\ result'.call = "Scanner"
            => /\ \A i, j \in DOMAIN targets' :
                      (i # j /\ IsDiscard(targets'[i]) /\ IsDiscard(targets'[j]))
                          => targets'[i] # targets'[j]
               /\ \A a \in DiscardCells(targets') : mem[a] = FreeCell
               /\ \A a \in DOMAIN mem \ DiscardCells(targets') : mem'[a] = mem[a]
       /\ result'.call = "RowScan"
            => LET o == RowScan(Others(1, targets, targets),
                                Others(1, result'.args, targets), mem, next) IN
               /\ result'.err = o.err
               /\ next' = o.next
               /\ \A a \in DOMAIN mem \ DiscardCells(targets) : mem'[a] = o.mem[a]]_vars

\* A row scan that succeeded and left a present value in a discard target.
C8_Witness ==
    /\ LatestCall("RowScan")
    /\ result.err = "nil"
    /\ Len(result.args) = 2
    /\ \E a \in DOMAIN mem : mem[a].tp = AnyType /\ mem[a].k = "int"

-----------------------------------------------------------------------------
(* Integer destinations whose range differs from the range of their holder. *)

\* The integer types validate sends through a signed holder of another range.
DifferentRange == {"int8", "uint16", "uint32", "uint64", "uint"}

\* The stored scalar c, in a cell of base type `base`, is the number x.  An
\* unsigned 32- or 64-bit cell whose signed reading is negative holds that
\* reading plus 2^32 or 2^64, which no raw integer of the model equals.
NumericallyEqual(c, base, x) ==
    IF Underlying(base) \in {"uint32", "uint64", "uint"}
    THEN c.n >= 0 /\ c.n = x
    ELSE c.n = x

(* C11: for an integer destination whose declared type has a different     *)
(* range than its holder (int8 and uint16 through NullInt16, uint32        *)
(* through NullInt32, uint64 and uint through NullInt64), after a Scan     *)
(* that succeeded on a present raw integer the destination holds a value   *)
(* numerically equal to the raw integer: nothing is stored wrapped modulo  *)
(* 2^w or with its sign reinterpreted.                                     *)
C11_Original ==
    (/\ Scanned
     /\ result.err = "nil"
     /\ result.src.k = "int"
     /\ nv.target.tp.depth = 2
     /\ nv.target.tp.base \in DifferentRange
     /\ nv.target.v # 0)
        => /\ Inner(nv.target, mem) # 0
           /\ NumericallyEqual(Pointee(nv.target, mem), nv.target.tp.base, result.src.n)

-----------------------------------------------------------------------------
(* Destinations New takes without looking at them. *)

\* The untyped nil, a value that is no pointer, and a nil pointer of a
\* supported pointer-to-pointer-to-scalar type.
Degenerate(target) ==
    \/ target = NilIface
    \/ target.tp.depth = 0
    \/ (target.v = 0 /\ target.tp.depth = 2 /\ target.tp.base \in SupportedBases)

\* The ways Scan returns to its caller.
Returned == {"nil", "unsupported", "conversion"}

(* C12: NullValue.Scan is total: for the untyped nil destination, a        *)
(* destination that is no pointer and a nil outer pointer of supported     *)
(* shape, and for every raw value, Scan returns success or an error; the   *)
(* untyped nil yields the unsupported-destination error like any other     *)
(* input that is no pointer, and the call never panics.                    *)
C12_Original ==
    (Scanned /\ Degenerate(nv.target))
        => /\ result.err \in Returned
           /\ nv.target = NilIface => result.err = "unsupported"

====
